---- MODULE Spec2Model ----
(***************************************************************************)
(* Model of the token-refresh response interceptor of axios-interceptors.  *)
(* The state is the module-level flag and queue of the interceptor, the    *)
(* localStorage credential store, the requests the dispatcher has not yet  *)
(* answered, and the position of each suspended leader handler.            *)
(*                                                                         *)
(* JavaScript runs a handler to its next await without interruption, and   *)
(* runs every runnable promise continuation before the next network        *)
(* response is delivered.  A leader whose awaited promise has settled is   *)
(* therefore resumed before any other response is handled (NoMicrotask).   *)
(***************************************************************************)
EXTENDS Integers, Sequences, FiniteSets, TLC

\* ---- bounds of the model ------------------------------------------------
NumReqs == 3          \* requests the application issues
Max401 == 3           \* 401 answers the server gives in all
MaxRefreshCalls == 2  \* refresh calls the scenario allows

Reqs == 1..NumReqs

\* ---- values -------------------------------------------------------------
Null == 0             \* JavaScript null: no item stored, no header set
UndefinedStr == -1    \* the string "undefined" that setItem stores for undefined
T1 == 1               \* the access credential the application starts with
R1 == 1               \* the refresh credential the application starts with
RefreshReq == 0       \* "request id" of the refresh call, in error values

VARIABLES
  isRefreshing,          \* part_000:227
  refreshAndRetryQueue,  \* part_000:226
  localStorage,          \* [token, refreshToken]
  href,                  \* window.location.href was set to "/"
  inflight,              \* calls of axiosInstance the dispatcher has not answered
  leaders,               \* suspended leader handlers (inside the try block)
  result,                \* the promise each application caller holds
  attempts,              \* per request: dispatches so far
  n401,                  \* 401 answers so far
  refreshCalls,          \* refresh calls issued so far
  ev,                    \* the last step taken
  enqLog,                \* history: entries pushed, in push order
  replayLog              \* history: resubmissions, in dispatch order: attempt m
                         \* resubmits the failed attempt n, in the turn of leader by

vars == <<isRefreshing, refreshAndRetryQueue, localStorage, href, inflight,
          leaders, result, attempts, n401, refreshCalls, ev, enqLog, replayLog>>

\* ---- records ------------------------------------------------------------
\* An outcome of a call: the response, or the error, of attempt n of request req.
Outcome(req, n, ok, hasResponse, status) ==
  [req |-> req, n |-> n, ok |-> ok, hasResponse |-> hasResponse, status |-> status]

NoOutcome == Outcome(0, 0, FALSE, FALSE, 0)

Pending == [st |-> "pending", val |-> NoOutcome]

Event(kind, req, n, out, refresh) ==
  [kind |-> kind, req |-> req, n |-> n, out |-> out, refresh |-> refresh]

\* ---- credential store ---------------------------------------------------
\* localStorage.clear()
Cleared == [token |-> Null, refreshToken |-> Null]

\* getToken, src/src/App.tsx:23-27
getToken(store) == IF store.token # Null THEN store.token ELSE Null

\* getRefreshToken, src/src/App.tsx:29-33
getRefreshToken(store) ==
  IF store.refreshToken # Null THEN store.refreshToken ELSE Null

\* setAxiosHeader: the Authorization header is overwritten only when a token
\* is stored; otherwise the config keeps the header it already carries.
setAxiosHeader(config, store) ==
  IF getToken(store) # Null THEN [config EXCEPT !.hdr = getToken(store)]
  ELSE config

\* localStorage.setItem(key, value): an undefined value is stored as a string.
setItem(store, key, value, present) ==
  [store EXCEPT ![key] = IF present THEN value ELSE UndefinedStr]

\* ---- the interceptor's tests ---------------------------------------------
\* Variant: the missing response is taken for an authentication failure.
IsAuthFailureNoResponse(out) == ~out.hasResponse \/ out.status = 401

\* error.response && error.response.status === 401
IsAuthFailure(out) == out.hasResponse /\ out.status = 401

\* Variant: the flag is not consulted.
BecomesLeaderAlways == TRUE

\* if (!isRefreshing)
BecomesLeader == ~isRefreshing

\* A leader whose awaited promise settled is runnable; it runs before any
\* further response is delivered.
NoMicrotask == \A l \in leaders : l.phase \notin {"rejected", "resume"}


\* ---- dispatching ----------------------------------------------------------
\* The config of a failed call, as error.config carries it.
ConfigOf(c) == [req |-> c.req, n |-> c.n, hdr |-> c.hdr]

\* axiosInstance(config): the request interceptor runs setAxiosHeader on the
\* config, and the call is handed to the dispatcher as attempt n of the request;
\* cont is where its outcome goes: the application's promise ("caller") or the
\* promise the leader awaits ("await").
Dispatch(config, cont, n, store) ==
  [req |-> config.req, n |-> n, hdr |-> setAxiosHeader(config, store).hdr,
   cont |-> cont]

\* The leader handler suspended for call c.
LeaderOf(c) == CHOOSE l \in leaders : l.config.req = c.req /\ l.phase = "retry"

\* Settling the promise of call c: the application's promise, or the promise
\* the leader awaits.
SettleResult(c, st, out) ==
  IF c.cont = "caller" THEN [result EXCEPT ![c.req] = [st |-> st, val |-> out]]
  ELSE result

SettleLeaders(c, st, out) ==
  IF c.cont = "await"
  THEN (leaders \ {LeaderOf(c)}) \cup
       {[LeaderOf(c) EXCEPT !.phase = IF st = "resolved" THEN "resume" ELSE "rejected",
                            !.out = out]}
  ELSE leaders

Answerable(c) ==
  /\ c \in inflight
  /\ NoMicrotask
  /\ c.cont = "await" => \E l \in leaders : l.config.req = c.req /\ l.phase = "retry"

\* ---- initial state --------------------------------------------------------
Init ==
  /\ isRefreshing = FALSE
  /\ refreshAndRetryQueue = <<>>
  /\ localStorage \in {[token |-> T1, refreshToken |-> R1],
                       [token |-> T1, refreshToken |-> Null]}
  /\ href = FALSE
  /\ inflight = {}
  /\ leaders = {}
  /\ result = [r \in Reqs |-> Pending]
  /\ attempts = [r \in Reqs |-> 0]
  /\ n401 = 0
  /\ refreshCalls = 0
  /\ ev = Event("init", 0, 0, NoOutcome, "none")
  /\ enqLog = <<>>
  /\ replayLog = <<>>

\* ---- the application issues a request (App.tsx useEffect) -----------------
Request(r) ==
  /\ NoMicrotask
  /\ attempts[r] = 0
  /\ \A q \in Reqs : q < r => attempts[q] > 0
  /\ inflight' = inflight \cup
        {Dispatch([req |-> r, n |-> 0, hdr |-> Null], "caller", 1, localStorage)}
  /\ attempts' = [attempts EXCEPT ![r] = 1]
  /\ ev' = Event("request", r, 1, NoOutcome, "none")
  /\ UNCHANGED <<isRefreshing, refreshAndRetryQueue, localStorage, href, leaders,
                 result, n401, refreshCalls, enqLog, replayLog>>

\* ---- response interceptor, success handler: (response) => response --------
ResponseOk(c) ==
  LET out == Outcome(c.req, c.n, TRUE, TRUE, 200) IN
  /\ Answerable(c)
  /\ inflight' = inflight \ {c}
  /\ result' = SettleResult(c, "resolved", out)
  /\ leaders' = SettleLeaders(c, "resolved", out)
  /\ ev' = Event("response", c.req, c.n, out, "none")
  /\ UNCHANGED <<isRefreshing, refreshAndRetryQueue, localStorage, href,
                 attempts, n401, refreshCalls, enqLog, replayLog>>

\* ---- response interceptor, error handler ----------------------------------
\* Not a 401: return Promise.reject(error)
HandleNonAuth(c, out) ==
  /\ Answerable(c)
  /\ ~IsAuthFailure(out)
  /\ inflight' = inflight \ {c}
  /\ result' = SettleResult(c, "rejected", out)
  /\ leaders' = SettleLeaders(c, "rejected", out)
  /\ ev' = Event("error", c.req, c.n, out, "none")
  /\ UNCHANGED <<isRefreshing, refreshAndRetryQueue, localStorage, href,
                 attempts, n401, refreshCalls, enqLog, replayLog>>

\* 401 with no refresh in progress and a refresh token stored: the handler sets
\* the flag, issues the refresh call and suspends at the await.
HandleLeader(c, out) ==
  /\ Answerable(c)
  /\ IsAuthFailure(out)
  /\ n401 < Max401
  /\ BecomesLeader
  /\ getRefreshToken(localStorage) # Null
  /\ refreshCalls < MaxRefreshCalls
  /\ isRefreshing' = TRUE
  /\ inflight' = inflight \ {c}
  /\ leaders' = leaders \cup
        {[config |-> ConfigOf(c), cont |-> c.cont, phase |-> "refresh",
          refresh |-> "pending", tok |-> Null, out |-> NoOutcome]}
  /\ refreshCalls' = refreshCalls + 1
  /\ n401' = n401 + 1
  /\ ev' = Event("error", c.req, c.n, out, "none")
  /\ UNCHANGED <<refreshAndRetryQueue, localStorage, href, result, attempts,
                 enqLog, replayLog>>

\* Variant: the missing-token branch returns without the finally block.
HandleMissingNoFinally(c, out) ==
  /\ Answerable(c)
  /\ IsAuthFailure(out)
  /\ n401 < Max401
  /\ BecomesLeader
  /\ getRefreshToken(localStorage) = Null
  /\ localStorage' = Cleared
  /\ href' = TRUE
  /\ isRefreshing' = TRUE
  /\ inflight' = inflight \ {c}
  /\ result' = SettleResult(c, "rejected", out)
  /\ leaders' = SettleLeaders(c, "rejected", out)
  /\ n401' = n401 + 1
  /\ ev' = Event("error", c.req, c.n, out, "missing")
  /\ UNCHANGED <<refreshAndRetryQueue, attempts, refreshCalls, enqLog, replayLog>>

\* 401 with no refresh in progress and no refresh token: clear the store, go to
\* "/", return Promise.reject(error); the finally block resets the flag.
HandleMissing(c, out) ==
  /\ Answerable(c)
  /\ IsAuthFailure(out)
  /\ n401 < Max401
  /\ BecomesLeader
  /\ getRefreshToken(localStorage) = Null
  /\ localStorage' = Cleared
  /\ href' = TRUE
  /\ isRefreshing' = FALSE
  /\ inflight' = inflight \ {c}
  /\ result' = SettleResult(c, "rejected", out)
  /\ leaders' = SettleLeaders(c, "rejected", out)
  /\ n401' = n401 + 1
  /\ ev' = Event("error", c.req, c.n, out, "missing")
  /\ UNCHANGED <<refreshAndRetryQueue, attempts, refreshCalls, enqLog, replayLog>>

\* 401 while a refresh is in progress: push {config, resolve, reject} and return
\* the pending promise.
HandleFollower(c, out) ==
  /\ Answerable(c)
  /\ IsAuthFailure(out)
  /\ n401 < Max401
  /\ ~BecomesLeader
  /\ refreshAndRetryQueue' =
        Append(refreshAndRetryQueue, [config |-> ConfigOf(c), cont |-> c.cont])
  /\ enqLog' = Append(enqLog, [req |-> c.req, n |-> c.n, as |-> "follower", cont |-> c.cont])
  /\ inflight' = inflight \ {c}
  /\ n401' = n401 + 1
  /\ ev' = Event("error", c.req, c.n, out, "none")
  /\ UNCHANGED <<isRefreshing, localStorage, href, leaders, result, attempts,
                 refreshCalls, replayLog>>

\* The dispatcher answers call c with an error: a response of status 401 or 500,
\* or no response at all.
ErrorOutcomes(c) ==
  {Outcome(c.req, c.n, FALSE, TRUE, 401), Outcome(c.req, c.n, FALSE, TRUE, 500),
   Outcome(c.req, c.n, FALSE, FALSE, 0)}

ResponseError(c) ==
  \E out \in ErrorOutcomes(c) :
    \/ HandleNonAuth(c, out)
    \/ HandleLeader(c, out)
    \/ HandleMissing(c, out)
    \/ HandleFollower(c, out)


\* ---- the leader's refresh call answers ------------------------------------
\* The access credential the k-th refresh call yields, and the refresh
\* credential it yields when the server rotates it.
NewToken(k) == k + 1

\* .then of the refresh call: store the credentials of the response and
\* resubmit the original request; the leader now awaits that resubmission.
RefreshThen(l, rotates) ==
  LET store1 == setItem(localStorage, "token", NewToken(refreshCalls), TRUE)
      store2 == setItem(store1, "refreshToken", NewToken(refreshCalls), rotates)
      call   == Dispatch(l.config, "await", attempts[l.config.req] + 1, store2)
  IN
  /\ l \in leaders
  /\ l.phase = "refresh"
  /\ NoMicrotask
  /\ localStorage' = store2
  /\ inflight' = inflight \cup {call}
  /\ attempts' = [attempts EXCEPT ![l.config.req] = @ + 1]
  /\ leaders' = (leaders \ {l}) \cup
        {[l EXCEPT !.phase = "retry", !.refresh = "ok",
                   !.tok = NewToken(refreshCalls)]}
  /\ replayLog' = Append(replayLog,
        [req |-> l.config.req, n |-> l.config.n, hdr |-> call.hdr,
         via |-> "leader", refresh |-> "ok", tok |-> NewToken(refreshCalls),
         m |-> call.n, by |-> <<l.config.req, l.config.n>>, k |-> refreshCalls])
  /\ ev' = Event("refreshed", l.config.req, l.config.n, NoOutcome, "ok")
  /\ UNCHANGED <<isRefreshing, refreshAndRetryQueue, href, result, n401,
                 refreshCalls, enqLog>>

\* The refresh call fails: the promise the .catch is chained on is rejected.
RefreshFail(l) ==
  /\ l \in leaders
  /\ l.phase = "refresh"
  /\ NoMicrotask
  /\ leaders' = (leaders \ {l}) \cup
        {[l EXCEPT !.phase = "rejected", !.refresh = "fail",
                   !.out = Outcome(RefreshReq, refreshCalls, FALSE, TRUE, 400)]}
  /\ ev' = Event("refreshFailed", l.config.req, l.config.n, NoOutcome, "fail")
  /\ UNCHANGED <<isRefreshing, refreshAndRetryQueue, localStorage, href, inflight,
                 result, attempts, n401, refreshCalls, enqLog, replayLog>>

\* Variant: the .catch logs the error and leaves the store as it is.
LeaderCatchNoClear(l) ==
  /\ l \in leaders
  /\ l.phase = "rejected"
  /\ localStorage' = localStorage
  /\ leaders' = (leaders \ {l}) \cup {[l EXCEPT !.phase = "resume"]}
  /\ ev' = Event("caught", l.config.req, l.config.n, l.out, l.refresh)
  /\ UNCHANGED <<isRefreshing, refreshAndRetryQueue, href, inflight, result,
                 attempts, n401, refreshCalls, enqLog, replayLog>>

\* .catch((errorRefresh) => { console.log; localStorage.clear() }): it catches
\* the rejection of the refresh call and of the resubmission returned by .then;
\* the awaited promise is then fulfilled with undefined.
LeaderCatch(l) ==
  /\ l \in leaders
  /\ l.phase = "rejected"
  /\ localStorage' = Cleared
  /\ leaders' = (leaders \ {l}) \cup {[l EXCEPT !.phase = "resume"]}
  /\ ev' = Event("caught", l.config.req, l.config.n, l.out, l.refresh)
  /\ UNCHANGED <<isRefreshing, refreshAndRetryQueue, href, inflight, result,
                 attempts, n401, refreshCalls, enqLog, replayLog>>

\* ---- the leader resumes after the await -----------------------------------
\* One iteration of refreshAndRetryQueue.forEach: axiosInstance(config), its
\* outcome routed to the entry's resolve / reject.
DrainOne(acc, entry, l) ==
  LET call == Dispatch(entry.config, entry.cont,
                       acc.att[entry.config.req] + 1, localStorage)
  IN [calls |-> acc.calls \cup {call},
      att   |-> [acc.att EXCEPT ![entry.config.req] = @ + 1],
      log   |-> Append(acc.log,
                  [req |-> entry.config.req, n |-> entry.config.n,
                   hdr |-> call.hdr, via |-> "drain", refresh |-> l.refresh,
                   tok |-> l.tok, m |-> call.n,
                   by |-> <<l.config.req, l.config.n>>, k |-> refreshCalls])]

\* Variant: the queue is walked from its last entry.
RECURSIVE ForEachReversed(_, _, _)
ForEachReversed(q, acc, l) ==
  IF q = <<>> THEN acc
  ELSE ForEachReversed(SubSeq(q, 1, Len(q) - 1), DrainOne(acc, q[Len(q)], l), l)

RECURSIVE ForEach(_, _, _)
ForEach(q, acc, l) ==
  IF q = <<>> THEN acc ELSE ForEach(Tail(q), DrainOne(acc, Head(q), l), l)

\* Variant: after a failed refresh the queue is emptied without resubmitting.
LeaderResumeDropOnFailure(l) ==
  LET d == IF l.refresh = "fail"
           THEN [calls |-> inflight, att |-> attempts, log |-> replayLog]
           ELSE ForEach(refreshAndRetryQueue,
                   [calls |-> inflight, att |-> attempts, log |-> replayLog], l)
  IN
  /\ l \in leaders
  /\ l.phase = "resume"
  /\ inflight' = d.calls
  /\ attempts' = d.att
  /\ replayLog' = d.log
  /\ isRefreshing' = FALSE
  /\ refreshAndRetryQueue' = <<[config |-> l.config, cont |-> l.cont]>>
  /\ enqLog' = Append(enqLog, [req |-> l.config.req, n |-> l.config.n, as |-> "leader", cont |-> l.cont])
  /\ leaders' = leaders \ {l}
  /\ ev' = Event("turn", l.config.req, l.config.n, l.out, l.refresh)
  /\ UNCHANGED <<localStorage, href, result, n401, refreshCalls>>

\* Variant: the flag is not reset at the end of the turn.
LeaderResumeNoFinally(l) ==
  LET d == ForEach(refreshAndRetryQueue,
                   [calls |-> inflight, att |-> attempts, log |-> replayLog], l)
  IN
  /\ l \in leaders
  /\ l.phase = "resume"
  /\ inflight' = d.calls
  /\ attempts' = d.att
  /\ replayLog' = d.log
  /\ isRefreshing' = isRefreshing
  /\ refreshAndRetryQueue' = <<[config |-> l.config, cont |-> l.cont]>>
  /\ enqLog' = Append(enqLog, [req |-> l.config.req, n |-> l.config.n, as |-> "leader", cont |-> l.cont])
  /\ leaders' = leaders \ {l}
  /\ ev' = Event("turn", l.config.req, l.config.n, l.out, l.refresh)
  /\ UNCHANGED <<localStorage, href, result, n401, refreshCalls>>

\* The drain, queue.length = 0, the finally block, and the fall-through to
\* the push of the leader's own request.
LeaderResume(l) ==
  LET d == ForEach(refreshAndRetryQueue,
                   [calls |-> inflight, att |-> attempts, log |-> replayLog], l)
  IN
  /\ l \in leaders
  /\ l.phase = "resume"
  /\ inflight' = d.calls
  /\ attempts' = d.att
  /\ replayLog' = d.log
  /\ isRefreshing' = FALSE
  /\ refreshAndRetryQueue' = <<[config |-> l.config, cont |-> l.cont]>>
  /\ enqLog' = Append(enqLog, [req |-> l.config.req, n |-> l.config.n, as |-> "leader", cont |-> l.cont])
  /\ leaders' = leaders \ {l}
  /\ ev' = Event("turn", l.config.req, l.config.n, l.out, l.refresh)
  /\ UNCHANGED <<localStorage, href, result, n401, refreshCalls>>

\* ---- specification --------------------------------------------------------
Next ==
  \/ \E r \in Reqs : Request(r)
  \/ \E c \in inflight : ResponseOk(c)
  \/ \E c \in inflight : ResponseError(c)
  \/ \E l \in leaders, rotates \in BOOLEAN : RefreshThen(l, rotates)
  \/ \E l \in leaders : RefreshFail(l)
  \/ \E l \in leaders : LeaderCatch(l)
  \/ \E l \in leaders : LeaderResume(l)

Spec == Init /\ [][Next]_vars

TypeOK ==
  /\ isRefreshing \in BOOLEAN
  /\ href \in BOOLEAN
  /\ refreshCalls \in 0..MaxRefreshCalls
  /\ \A c \in inflight : c.req \in Reqs /\ c.cont \in {"caller", "await"}
  /\ \A r \in Reqs : result[r].st \in {"pending", "resolved", "rejected"}


\* ---- auxiliary definitions of the properties ------------------------------
RefreshesInFlight == Cardinality({l \in leaders : l.phase = "refresh"})

\* Nothing is outstanding: no call at the dispatcher, no refresh call, and no
\* continuation ready to run.
Quiescent ==
  /\ inflight = {}
  /\ \A l \in leaders : l.phase = "retry"

\* The step just taken handled the error of a call.
ErrorHandled == ev' # ev /\ ev'.kind = "error"

Ids(seq) == [i \in DOMAIN seq |-> <<seq[i].req, seq[i].n>>]

IsDrain(e) == e.via = "drain"

DrainOrder == Ids(SelectSeq(replayLog, IsDrain))

QueueOrder ==
  [i \in DOMAIN refreshAndRetryQueue |->
     <<refreshAndRetryQueue[i].config.req, refreshAndRetryQueue[i].config.n>>]

\* ---- C1 -------------------------------------------------------------------
\* C1: at no time are two refresh calls in flight, and a 401 handled while
\* isRefreshing is true issues no refresh call: it only appends the request to
\* the queue.
C1_SingleFlight ==
  /\ [](RefreshesInFlight <= 1)
  /\ [][(ErrorHandled /\ ev'.out.hasResponse /\ ev'.out.status = 401 /\ isRefreshing)
        => /\ refreshCalls' = refreshCalls
           /\ RefreshesInFlight' = RefreshesInFlight
           /\ isRefreshing'
           /\ Len(refreshAndRetryQueue') = Len(refreshAndRetryQueue) + 1
           /\ SubSeq(refreshAndRetryQueue', 1, Len(refreshAndRetryQueue))
                = refreshAndRetryQueue
           /\ refreshAndRetryQueue'[Len(refreshAndRetryQueue')].config.req = ev'.req
       ]_vars

\* Three requests failed with 401 before the refresh answered: one refresh
\* call, two followers queued.
C1_Witness ==
  /\ RefreshesInFlight = 1
  /\ refreshCalls = 1
  /\ n401 = 3
  /\ Len(refreshAndRetryQueue) = 2

\* ---- C2 -------------------------------------------------------------------
\* C2: when the leader's turn ends after a successful refresh, the leader's
\* request was resubmitted and the caller's promise is settled with the outcome
\* of that resubmission.
C2_LeaderSettledByRetry ==
  (ev.kind = "turn" /\ ev.refresh = "ok") =>
     /\ \E i \in DOMAIN replayLog :
          /\ replayLog[i].via = "leader"
          /\ replayLog[i].req = ev.req
          /\ replayLog[i].n = ev.n
     /\ result[ev.req] =
          [st |-> IF ev.out.ok THEN "resolved" ELSE "rejected", val |-> ev.out]

\* ---- C3 -------------------------------------------------------------------
\* C3: once nothing is outstanding (every refresh call and every dispatched
\* request has returned), every application request that was queued as a
\* follower has its promise settled.
C3_FollowersSettled ==
  Quiescent =>
    \A i \in DOMAIN enqLog :
      (enqLog[i].as = "follower" /\ enqLog[i].cont = "caller")
         => result[enqLog[i].req].st # "pending"

\* ---- C4 -------------------------------------------------------------------
\* C4: once nothing is outstanding, isRefreshing is false again.
C4_FlagReset == Quiescent => ~isRefreshing

\* ---- C5 -------------------------------------------------------------------
\* C5: whenever isRefreshing is false and no leader handler is suspended or
\* ready to run, the queue is empty.
C5_QueueEmptyWhenIdle ==
  (~isRefreshing /\ leaders = {}) => refreshAndRetryQueue = <<>>

\* ---- C6 -------------------------------------------------------------------
\* C6: when the leader's turn ends after a failed refresh, the store is
\* cleared, the leader's request was not resubmitted, and the caller's promise
\* is rejected with the refresh error.
C6_RefreshFailureRejectsLeader ==
  (ev.kind = "turn" /\ ev.refresh = "fail") =>
     /\ localStorage = Cleared
     /\ ~\E i \in DOMAIN replayLog :
          replayLog[i].req = ev.req /\ replayLog[i].n = ev.n
     /\ result[ev.req] = [st |-> "rejected", val |-> ev.out]

\* ---- C7 -------------------------------------------------------------------
\* C7: a 401 handled with isRefreshing false and no refresh credential stored
\* clears the store, signals navigation to "/", rejects the request's promise
\* with the original error, issues no refresh call and leaves isRefreshing false.
C7_MissingCredential ==
  [][(ErrorHandled /\ ev'.out.hasResponse /\ ev'.out.status = 401
        /\ ~isRefreshing /\ localStorage.refreshToken = Null)
     => /\ localStorage' = [token |-> Null, refreshToken |-> Null]
        /\ href'
        /\ result'[ev'.req] = [st |-> "rejected", val |-> ev'.out]
        /\ refreshCalls' = refreshCalls
        /\ leaders' = leaders
        /\ refreshAndRetryQueue' = refreshAndRetryQueue
        /\ ~isRefreshing'
    ]_vars

C7_Witness ==
  /\ ev.kind = "error"
  /\ ev.refresh = "missing"
  /\ href
  /\ localStorage = Cleared
  /\ result[ev.req] = [st |-> "rejected", val |-> ev.out]
  /\ refreshCalls = 0
  /\ ~isRefreshing

\* ---- C8 -------------------------------------------------------------------
\* C8: the handling of a failure that is not a 401 response (no response
\* included) rejects with the same error and changes neither isRefreshing, nor
\* the queue, nor the credential store, and issues no refresh call.
C8_NonAuthPassthrough ==
  [][(ErrorHandled /\ ~(ev'.out.hasResponse /\ ev'.out.status = 401))
     => /\ isRefreshing' = isRefreshing
        /\ refreshAndRetryQueue' = refreshAndRetryQueue
        /\ localStorage' = localStorage
        /\ href' = href
        /\ refreshCalls' = refreshCalls
        /\ RefreshesInFlight' = RefreshesInFlight
        /\ \/ result'[ev'.req] = [st |-> "rejected", val |-> ev'.out]
           \/ \E l \in leaders' :
                l.config.req = ev'.req /\ l.phase = "rejected" /\ l.out = ev'.out
    ]_vars

\* A request with no response fails while a refresh is in flight, after another
\* was rejected with status 500.
C8_Witness ==
  /\ ev.kind = "error"
  /\ ~ev.out.hasResponse
  /\ isRefreshing
  /\ RefreshesInFlight = 1
  /\ result[ev.req] = [st |-> "rejected", val |-> ev.out]
  /\ \E r \in Reqs : result[r].st = "rejected" /\ result[r].val.status = 500

\* ---- C9 -------------------------------------------------------------------
\* C9: every request resubmitted in a leader turn whose refresh succeeded
\* carries the access credential that refresh yielded.
C9_ReplaysCarryNewToken ==
  \A i \in DOMAIN replayLog :
    replayLog[i].refresh = "ok" => replayLog[i].hdr = replayLog[i].tok

\* ---- C10 ------------------------------------------------------------------
\* C10: the entries drained so far, in the order of their resubmission,
\* followed by the entries now queued, are the entries in the order they were
\* pushed.
C10_Fifo == Ids(enqLog) = DrainOrder \o QueueOrder

\* One drain resubmitted two followers of different requests.
C10_Witness ==
  /\ ev.kind = "turn"
  /\ Len(DrainOrder) = 2
  /\ DrainOrder[1][1] # DrainOrder[2][1]


\* ---- further auxiliary definitions ----------------------------------------
\* The callbacks of a queue entry were invoked: an entry of an application
\* request settles with the application's promise (every call and entry of one
\* request forms one chain up to that promise); an entry the leader awaits is
\* never drained.
EntrySettled(e) == e.cont = "caller" /\ result[e.req].st # "pending"

\* The step just taken ended a leader's turn.
TurnEnded == ev' # ev /\ ev'.kind = "turn"

\* Resubmissions of the drain of a turn whose refresh failed.
FailedDrain == {i \in DOMAIN replayLog :
                  replayLog[i].via = "drain" /\ replayLog[i].refresh = "fail"}

\* Resubmission i has been answered and its outcome is the caller's result.
Routed(i) ==
  /\ result[replayLog[i].req].st # "pending"
  /\ result[replayLog[i].req].val.req = replayLog[i].req
  /\ result[replayLog[i].req].val.n = replayLog[i].m

InFlight(i) ==
  \E c \in inflight : c.req = replayLog[i].req /\ c.n = replayLog[i].m

\* ---- C11 ------------------------------------------------------------------
\* C11: every entry that left the queue was resubmitted by a drain, and once
\* nothing is outstanding the callbacks of every entry ever pushed have been
\* invoked.
C11_ExactlyOnceSettlement ==
  /\ \A i \in DOMAIN enqLog :
       (\A j \in DOMAIN refreshAndRetryQueue :
           <<refreshAndRetryQueue[j].config.req, refreshAndRetryQueue[j].config.n>>
              # <<enqLog[i].req, enqLog[i].n>>)
       => \E k \in DOMAIN replayLog :
            /\ replayLog[k].via = "drain"
            /\ replayLog[k].req = enqLog[i].req
            /\ replayLog[k].n = enqLog[i].n
  /\ Quiescent => \A i \in DOMAIN enqLog : EntrySettled(enqLog[i])

\* ---- C12 ------------------------------------------------------------------
\* C12: the turn of a leader whose refresh failed resubmits every entry then
\* queued and removes it from the queue, and the outcome of each such
\* resubmission becomes the result of that follower's promise.
C12_DrainAfterFailedRefresh ==
  /\ [][(TurnEnded /\ ev'.refresh = "fail") =>
          \A i \in DOMAIN refreshAndRetryQueue :
            /\ \E c \in inflight' \ inflight :
                 /\ c.req = refreshAndRetryQueue[i].config.req
                 /\ c.cont = refreshAndRetryQueue[i].cont
            /\ \A j \in DOMAIN refreshAndRetryQueue' :
                 refreshAndRetryQueue'[j].config # refreshAndRetryQueue[i].config
       ]_vars
  /\ [](\A i \in FailedDrain : InFlight(i) \/ Routed(i))

\* Two followers were resubmitted after a failed refresh; one was answered 200
\* and its caller's promise resolved with that response.
C12_Witness ==
  /\ Cardinality(FailedDrain) = 2
  /\ \E i \in FailedDrain :
       Routed(i) /\ result[replayLog[i].req].st = "resolved"
  /\ \E i \in FailedDrain : InFlight(i)

\* ---- C13 ------------------------------------------------------------------
\* C13: when the leader's resubmission failed for a reason other than 401, the
\* leader's caller is rejected with that error and the followers drained in
\* that turn carry the refreshed credential, as they do when it succeeded.
C13_ReplayFailureIsolated ==
  (ev.kind = "turn" /\ ev.refresh = "ok" /\ ~ev.out.ok) =>
     /\ result[ev.req] = [st |-> "rejected", val |-> ev.out]
     /\ \A i \in DOMAIN replayLog :
          (replayLog[i].via = "drain" /\ replayLog[i].by = <<ev.req, ev.n>>)
             => replayLog[i].hdr = replayLog[i].tok

\* ---- C14 ------------------------------------------------------------------
\* C14: the credential store changes only when a successful refresh writes the
\* new credentials, when the refresh call failed, or when the refresh
\* credential is missing.
C14_StoreDiscipline ==
  [][localStorage' # localStorage =>
       \/ ev'.kind = "refreshed"
       \/ ev'.kind = "caught" /\ ev'.refresh = "fail"
       \/ ev'.kind = "error" /\ ev'.refresh = "missing"
    ]_vars

\* ---- C15 ------------------------------------------------------------------
\* C15: a leader's turn ends with the leader's resubmission (after a successful
\* refresh) and every queued entry dispatched, none of those entries left in the
\* queue and isRefreshing false; no resubmitted follower is outstanding while
\* the leader that resubmitted it is still in its turn, and a 401 answer to a
\* resubmitted follower is queued only under a leader elected later.
C15_ResetOrdering ==
  /\ [][TurnEnded =>
          /\ ~isRefreshing'
          /\ ev'.refresh = "ok" =>
               \E i \in DOMAIN replayLog' :
                 /\ replayLog'[i].via = "leader"
                 /\ replayLog'[i].by = <<ev'.req, ev'.n>>
          /\ \A i \in DOMAIN refreshAndRetryQueue :
               /\ \E c \in inflight' \ inflight :
                    c.req = refreshAndRetryQueue[i].config.req
               /\ \A j \in DOMAIN refreshAndRetryQueue' :
                    refreshAndRetryQueue'[j].config # refreshAndRetryQueue[i].config
       ]_vars
  /\ [](\A i \in DOMAIN replayLog :
          replayLog[i].via = "drain" =>
            \A l \in leaders : <<l.config.req, l.config.n>> # replayLog[i].by)
  /\ [][(ErrorHandled /\ ev'.out.hasResponse /\ ev'.out.status = 401
           /\ Len(refreshAndRetryQueue') > Len(refreshAndRetryQueue))
        => \A i \in DOMAIN replayLog :
             (replayLog[i].via = "drain" /\ replayLog[i].req = ev'.req
                /\ replayLog[i].m = ev'.n)
             => \E l \in leaders : <<l.config.req, l.config.n>> # replayLog[i].by
       ]_vars

\* A follower's resubmission was answered 401 and that request is now the
\* leader of a new refresh.
C15_Witness ==
  /\ ev.kind = "error"
  /\ ev.out.status = 401
  /\ \E i \in DOMAIN replayLog :
       /\ replayLog[i].via = "drain"
       /\ replayLog[i].req = ev.req
       /\ replayLog[i].m = ev.n
  /\ \E l \in leaders : l.config.req = ev.req /\ l.config.n = ev.n
  /\ isRefreshing

\* ---- C16 ------------------------------------------------------------------
\* C16: a successful refresh leaves the stored refresh credential unchanged or
\* replaces it by the new one the response supplies.
C16_RefreshTokenRotation ==
  [][(ev' # ev /\ ev'.kind = "refreshed") =>
        localStorage'.refreshToken
           \in {localStorage.refreshToken, NewToken(refreshCalls)}
    ]_vars

\* ---- C17 ------------------------------------------------------------------
\* C17: no failed attempt of a request is resubmitted twice.
C17_AtMostOnceReplay ==
  \A i, j \in DOMAIN replayLog :
    (replayLog[i].req = replayLog[j].req /\ replayLog[i].n = replayLog[j].n)
       => i = j

\* ---- C18 ------------------------------------------------------------------
\* C18: once followers were resubmitted after a failed refresh, no further
\* refresh call is issued, the store stays cleared, isRefreshing is false, a
\* 401 answer to such a resubmission goes through the missing-credential path
\* and rejects that follower's promise, and in the end nothing is outstanding.
C18_Safety ==
  \A i \in FailedDrain :
    /\ refreshCalls = replayLog[i].k
    /\ localStorage = Cleared
    /\ ~isRefreshing
    /\ leaders = {}
    /\ InFlight(i) \/ Routed(i)
    /\ (Routed(i) /\ result[replayLog[i].req].val.status = 401)
          => /\ result[replayLog[i].req].st = "rejected"
             /\ href

\* What is left to do: calls to be answered and requests to be issued.
Outstanding ==
  Cardinality(inflight) + 2 * Cardinality({r \in Reqs : attempts[r] = 0})

\* From then on every step reduces what is outstanding and every call in
\* flight can be answered, so the system comes to rest only with no call in
\* flight, and it does come to rest.
C18_CascadeTerminates ==
  /\ []C18_Safety
  /\ [][(ErrorHandled /\ ev'.out.hasResponse /\ ev'.out.status = 401
           /\ \E i \in FailedDrain :
                replayLog[i].req = ev'.req /\ replayLog[i].m = ev'.n)
        => ev'.refresh = "missing" /\ refreshCalls' = refreshCalls
       ]_vars
  /\ [][FailedDrain # {} => Outstanding' < Outstanding]_vars
  /\ [](FailedDrain # {} => \A c \in inflight : Answerable(c))

\* The same end stated as a liveness property, for FairSpec.
C18_Liveness ==
  [](FailedDrain # {} => <>(inflight = {} /\ leaders = {} /\ ~isRefreshing))

\* A follower resubmitted after a failed refresh was answered 401 and
\* rejected; nothing is outstanding.
C18_Witness ==
  /\ \E i \in FailedDrain :
       /\ Routed(i)
       /\ result[replayLog[i].req].val.status = 401
       /\ result[replayLog[i].req].st = "rejected"
  /\ href
  /\ inflight = {}
  /\ ~isRefreshing
  /\ refreshCalls = 1

\* Every call the dispatcher or the refresh endpoint holds is answered, and
\* every runnable continuation runs.
FairSpec == Spec /\ WF_vars(Next)

====
